---- MODULE Spec2Model ----
(***************************************************************************)
(* Model of the translation core of the Python to JavaScript transpiler    *)
(* GUI: PythonToJavaScriptTranspiler.transpile of main.py, the line by     *)
(* line translator the editor calls.  Text is a sequence of one-character  *)
(* strings, so that str.strip, str.split, str.startswith, slicing and      *)
(* re.match are computed character by character as Python computes them.  *)
(***************************************************************************)
EXTENDS Integers, Sequences, FiniteSets, TLC

(***************************************************************************)
(* Python string primitives used by transpile.                             *)
(***************************************************************************)

\* The characters str.strip() removes and \s matches, among those the
\* checked texts are written in.
Whitespace == {" ", "\t", "\n"}

\* The characters \w matches, among those the checked texts are written in.
WordChars == {"a", "b", "c", "d", "e", "f", "g", "h", "i", "j", "k", "l", "m", "n", "o", "p", "q", "r", "s", "t", "u", "v", "w", "x", "y", "z", "A", "B", "C", "D", "E", "F", "G", "H", "I", "J", "K", "L", "M", "N", "O", "P", "Q", "R", "S", "T", "U", "V", "W", "X", "Y", "Z", "0", "1", "2", "3", "4", "5", "6", "7", "8", "9", "_"}

\* s[start:stop] with Python's clamping of bounds and negative indices.
PySlice(s, start, stop) ==
    LET n  == Len(s)
        lo == IF start < 0 THEN (IF n + start < 0 THEN 0 ELSE n + start)
              ELSE (IF start > n THEN n ELSE start)
        hi == IF stop < 0 THEN (IF n + stop < 0 THEN 0 ELSE n + stop)
              ELSE (IF stop > n THEN n ELSE stop)
    IN  IF lo >= hi THEN << >> ELSE SubSeq(s, lo + 1, hi)

\* The first position at or after from whose character is not in set
\* (Len(s) + 1 when the run reaches the end): the end of a greedy run.
RECURSIVE RunEnd(_, _, _)
RunEnd(s, from, set) ==
    IF from > Len(s) \/ s[from] \notin set THEN from
    ELSE RunEnd(s, from + 1, set)

\* The last position at or before from whose character is not in set (0
\* when there is none).
RECURSIVE RunStart(_, _, _)
RunStart(s, from, set) ==
    IF from < 1 \/ s[from] \notin set THEN from
    ELSE RunStart(s, from - 1, set)

\* s.strip()
strip(s) == SubSeq(s, RunEnd(s, 1, Whitespace), RunStart(s, Len(s), Whitespace))

\* s.startswith(prefix)
startswith(s, prefix) ==
    Len(s) >= Len(prefix) /\ SubSeq(s, 1, Len(prefix)) = prefix

\* sub occurs in s at position k.
OccursAt(sub, s, k) ==
    k + Len(sub) - 1 <= Len(s) /\ SubSeq(s, k, k + Len(sub) - 1) = sub

\* The first position at or after from at which sub occurs in s, 0 if none:
\* s.find(sub, from - 1) + 1.
RECURSIVE find(_, _, _)
find(sub, s, from) ==
    IF from + Len(sub) - 1 > Len(s) THEN 0
    ELSE IF OccursAt(sub, s, from) THEN from
    ELSE find(sub, s, from + 1)

\* sub in s
contains(sub, s) == find(sub, s, 1) # 0

\* s.split(sep)
RECURSIVE split(_, _)
split(s, sep) ==
    LET k == find(sep, s, 1)
    IN  IF k = 0 THEN <<s>>
        ELSE <<SubSeq(s, 1, k - 1)>> \o split(SubSeq(s, k + Len(sep), Len(s)), sep)

\* s.split(sep, 1)
split1(s, sep) ==
    LET k == find(sep, s, 1)
    IN  IF k = 0 THEN <<s>>
        ELSE <<SubSeq(s, 1, k - 1), SubSeq(s, k + Len(sep), Len(s))>>

\* sep.join(parts)
RECURSIVE join(_, _)
join(sep, parts) ==
    IF parts = << >> THEN << >>
    ELSE IF Len(parts) = 1 THEN parts[1]
    ELSE parts[1] \o sep \o join(sep, Tail(parts))

\* The first position at or after from holding the character c (Len(s) + 1
\* when there is none): the end of a greedy run of characters other than c.
RECURSIVE FindFrom(_, _, _)
FindFrom(s, from, c) ==
    IF from > Len(s) \/ s[from] = c THEN from
    ELSE FindFrom(s, from + 1, c)

(***************************************************************************)
(* String literals of transpile.                                           *)
(***************************************************************************)

NL == <<"\n">>
kw_def == <<"d", "e", "f", " ">>
kw_return == <<"r", "e", "t", "u", "r", "n", " ">>
kw_print == <<"p", "r", "i", "n", "t", "(">>
kw_if_bare == <<"i", "f">>
kw_while_bare == <<"w", "h", "i", "l", "e">>
kw_if == <<"i", "f", " ">>
kw_else == <<"e", "l", "s", "e", ":">>
kw_for == <<"f", "o", "r", " ">>
kw_while == <<"w", "h", "i", "l", "e", " ">>
ch_eq == <<"=">>
ch_pluseq == <<"+", "=">>
ch_hash == <<"#">>
js_header == <<"/", "/", " ", "G", "e", "n", "e", "r", "a", "t", "e", "d", " ", "J", "a", "v", "a", "S", "c", "r", "i", "p", "t">>
js_function == <<"f", "u", "n", "c", "t", "i", "o", "n", " ">>
js_open_paren == <<"(">>
js_block_open == <<")", " ", "{">>
js_return == <<" ", " ", " ", " ", "r", "e", "t", "u", "r", "n", " ">>
js_semi == <<";">>
js_console_log == <<"c", "o", "n", "s", "o", "l", "e", ".", "l", "o", "g", "(">>
js_call_close == <<")", ";">>
js_let == <<"l", "e", "t", " ">>
js_assign == <<" ", "=", " ">>
js_if == <<"i", "f", " ", "(">>
js_else == <<"}", " ", "e", "l", "s", "e", " ", "{">>
js_comment == <<"/", "/", " ">>
js_while == <<"w", "h", "i", "l", "e", " ", "(">>
js_close == <<"}">>

\* func_match = re.match(pattern, line) for the pattern of the def branch:
\* "def", \s+, a group of \w+, \s*, "(", a group of characters other than
\* ")", ")", \s*, ":".  Every greedy run of the pattern is followed by a
\* character outside the run's class, so the greedy match is the only
\* candidate: no backtracking succeeds where it fails.
func_match(line) ==
    LET n      == Len(line)
        ws1    == 4
        name1  == RunEnd(line, ws1, Whitespace)
        name2  == RunEnd(line, name1, WordChars)
        paren1 == RunEnd(line, name2, Whitespace)
        paren2 == FindFrom(line, paren1 + 1, ")")
        colon  == RunEnd(line, paren2 + 1, Whitespace)
        ok     == /\ startswith(line, <<"d", "e", "f">>)
                  /\ name1 > ws1
                  /\ name2 > name1
                  /\ paren1 <= n /\ line[paren1] = "("
                  /\ paren2 <= n /\ line[paren2] = ")"
                  /\ colon <= n /\ line[colon] = ":"
    IN  IF ok THEN [matched |-> TRUE,
                    func_name |-> SubSeq(line, name1, name2 - 1),
                    params |-> SubSeq(line, paren1 + 1, paren2 - 1)]
        ELSE [matched |-> FALSE, func_name |-> << >>, params |-> << >>]
(***************************************************************************)
(* Input lines the checked source texts are built from.                    *)
(***************************************************************************)

\* def add(a, b):
in_def_add == <<"d", "e", "f", " ", "a", "d", "d", "(", "a", ",", " ", "b", ")", ":">>
\* def f(a, b=(1)):
in_def_nested == <<"d", "e", "f", " ", "f", "(", "a", ",", " ", "b", "=", "(", "1", ")", ")", ":">>
\*     return a + b
in_return_sum == <<" ", " ", " ", " ", "r", "e", "t", "u", "r", "n", " ", "a", " ", "+", " ", "b">>
\* print("hi")
in_print_hi == <<"p", "r", "i", "n", "t", "(", "\"", "h", "i", "\"", ")">>
\* print("hi")  # c
in_print_comment == <<"p", "r", "i", "n", "t", "(", "\"", "h", "i", "\"", ")", " ", " ", "#", " ", "c">>
\* x = "abc
in_open_string == <<"x", " ", "=", " ", "\"", "a", "b", "c">>
\* x += 1
in_aug_assign == <<"x", " ", "+", "=", " ", "1">>
\* if x > 0:
in_if == <<"i", "f", " ", "x", " ", ">", " ", "0", ":">>
\* else:
in_else == <<"e", "l", "s", "e", ":">>
\* for i in range(3):
in_for_range == <<"f", "o", "r", " ", "i", " ", "i", "n", " ", "r", "a", "n", "g", "e", "(", "3", ")", ":">>
\*     print(i)
in_print_i == <<" ", " ", " ", " ", "p", "r", "i", "n", "t", "(", "i", ")">>
\* while x > 0:
in_while == <<"w", "h", "i", "l", "e", " ", "x", " ", ">", " ", "0", ":">>
\* import os
in_import == <<"i", "m", "p", "o", "r", "t", " ", "o", "s">>
\* # note
in_comment == <<"#", " ", "n", "o", "t", "e">>
\* (a blank line)
in_blank == << >>
\* d = {}
in_dict == <<"d", " ", "=", " ", "{", "}">>
\* class A:
in_class == <<"c", "l", "a", "s", "s", " ", "A", ":">>
\*     while y:
in_while_nested == <<" ", " ", " ", " ", "w", "h", "i", "l", "e", " ", "y", ":">>
\*         return 1
in_return_deep == <<" ", " ", " ", " ", " ", " ", " ", " ", "r", "e", "t", "u", "r", "n", " ", "1">>
\*     return -1
in_return_neg == <<" ", " ", " ", " ", "r", "e", "t", "u", "r", "n", " ", "-", "1">>
\* elif x == 0:
in_elif_eq == <<"e", "l", "i", "f", " ", "x", " ", "=", "=", " ", "0", ":">>
\* # x = 1
in_comment_assign == <<"#", " ", "x", " ", "=", " ", "1">>
\* # x += 1
in_comment_aug == <<"#", " ", "x", " ", "+", "=", " ", "1">>
\* x -= 1
in_sub_assign == <<"x", " ", "-", "=", " ", "1">>
\* y = x // 2
in_floor_div == <<"y", " ", "=", " ", "x", " ", "/", "/", " ", "2">>
\* ok = True
in_true == <<"o", "k", " ", "=", " ", "T", "r", "u", "e">>
\*     return None
in_return_none == <<" ", " ", " ", " ", "r", "e", "t", "u", "r", "n", " ", "N", "o", "n", "e">>
\* def f(a)
in_def_nocolon == <<"d", "e", "f", " ", "f", "(", "a", ")">>
\* if x > 0
in_if_nocolon == <<"i", "f", " ", "x", " ", ">", " ", "0">>
\* while x > 0
in_while_nocolon == <<"w", "h", "i", "l", "e", " ", "x", " ", ">", " ", "0">>

LineCatalogue ==
    {in_def_add,
     in_def_nested,
     in_return_sum,
     in_print_hi,
     in_print_comment,
     in_open_string,
     in_aug_assign,
     in_if,
     in_else,
     in_for_range,
     in_print_i,
     in_while,
     in_import,
     in_comment,
     in_blank,
     in_dict,
     in_class,
     in_elif_eq,
     in_comment_assign,
     in_comment_aug,
     in_sub_assign,
     in_floor_div,
     in_true,
     in_return_none,
     in_def_nocolon,
     in_if_nocolon,
     in_while_nocolon}

BlockCatalogue ==
    {in_if, in_while_nested, in_return_deep, in_else, in_return_neg, in_elif_eq}

(***************************************************************************)
(* Bounds of the checked inputs.                                           *)
(***************************************************************************)

\* Longest source text, in lines, built from LineCatalogue.
MaxLines == 2

\* Longest source text, in lines, built from BlockCatalogue.
MaxBlockLines == 5

\* Longest source text, in lines, of the repeated calls of SpecTwice.
MaxTwiceLines == 2

\* The source texts of at most n lines over the lines of catalogue.
Programs(catalogue, n) ==
    {join(NL, p) : p \in UNION {[1..k -> catalogue] : k \in 0..n}}

Sources ==
    Programs(LineCatalogue, MaxLines) \cup Programs(BlockCatalogue, MaxBlockLines)

\* One input line for every branch of the translation loop.
TwiceCatalogue ==
    {in_def_add, in_return_sum, in_print_hi, in_open_string, in_if,
     in_else, in_for_range, in_while, in_import, in_comment, in_blank}

TwiceSources == Programs(TwiceCatalogue, MaxTwiceLines)

\* The source texts of the calls made between two calls on one text.
InterveningSources == Programs(TwiceCatalogue, 1)

(***************************************************************************)
(* State.  code is the argument of the running call; lines, idx and        *)
(* js_lines are its locals (idx is the position of the for loop over       *)
(* lines); result is the text it returned and error the TranspilerError it *)
(* raised (result is the empty text until the call returns).  first        *)
(* records the first completed call of a run, and whether a call on        *)
(* another text has completed since.                                       *)
(***************************************************************************)
VARIABLES code, pc, lines, idx, js_lines, result, error, first

(***************************************************************************)
(* State of the application window (ModernTranspilerGUI).  transpiler is   *)
(* the translator the import at the head of main.py provided; settings_file*)
(* is the content of the settings file; python_editor, js_editor,          *)
(* status_indicator, file_status_label, transpile_status_label and         *)
(* messages are the contents of the widgets (messages without the clock    *)
(* time add_message prefixes); current_python_file, recent_files,          *)
(* font_size and current_theme are the fields of the same names; running   *)
(* is false once the window is destroyed; saved_content is the text the    *)
(* editor held when it was last loaded or saved; is_modified,              *)
(* auto_transpile_enabled and auto_transpile_timer are the fields of the   *)
(* same names (0 for None); after_queue holds the callbacks Tk has pending *)
(* from root.after, each with its id and the time left until it is due.    *)
(* transpile_calls counts the calls of transpiler.transpile, last_call     *)
(* records the last of them, and user_acted whether any handler of a user  *)
(* event has run.                                                          *)
(***************************************************************************)
VARIABLES transpiler, settings_file, python_editor, js_editor,
          status_indicator, transpile_status_label, messages, is_modified,
          auto_transpile_enabled, auto_transpile_timer, after_queue,
          transpile_calls, last_call, user_acted

VARIABLES current_python_file, recent_files, file_status_label, font_size,
          current_theme, running, saved_content

\* The fields and widgets the file, settings and view handlers work on.
file_vars ==
    <<current_python_file, recent_files, file_status_label, font_size,
      current_theme, running, saved_content>>

gui_vars ==
    <<transpiler, settings_file, python_editor, js_editor, status_indicator,
      transpile_status_label, messages, is_modified, auto_transpile_enabled,
      auto_transpile_timer, after_queue, transpile_calls, last_call,
      user_acted, file_vars>>

transpile_vars == <<code, pc, lines, idx, js_lines, result, error, first>>

vars == <<code, pc, lines, idx, js_lines, result, error, first, gui_vars>>

\* No TranspilerError was raised.
NoError == [raised |-> FALSE, line |-> 0, column |-> 0]

\* No call has completed yet.
NoCall == [called |-> FALSE, code |-> << >>, text |-> << >>, between |-> FALSE]

\* js_lines kept from the previous call instead of created by the call.
StaleJsLines == js_lines \o <<js_header, << >>>>

\* The local js_lines as transpile creates it.
FreshJsLines == <<js_header, << >>>>

\* lines = code.strip().split('\n')
InputLines(text) == split(strip(text), NL)

\* line = line.strip(), for the line the loop is at.
line == strip(lines[idx])

\* The branch of the if/elif chain a stripped line takes.
branch(l) ==
    IF startswith(l, kw_def) THEN "def"
    ELSE IF startswith(l, kw_return) THEN "return"
    ELSE IF startswith(l, kw_print) THEN "print"
    ELSE IF contains(ch_eq, l) /\ ~startswith(l, kw_if_bare)
                               /\ ~startswith(l, kw_while_bare) THEN "assign"
    ELSE IF startswith(l, kw_if) THEN "if"
    ELSE IF l = kw_else THEN "else"
    ELSE IF startswith(l, kw_for) THEN "for"
    ELSE IF startswith(l, kw_while) THEN "while"
    ELSE IF l # << >> /\ ~startswith(l, ch_hash) THEN "other"
    ELSE IF startswith(l, ch_hash) THEN "comment"
    ELSE "blank"

\* The output lines each branch appends for a stripped line l.
emit_def(l) ==
    IF func_match(l).matched
    THEN <<js_function \o func_match(l).func_name \o js_open_paren
             \o func_match(l).params \o js_block_open>>
    ELSE << >>

emit_return(l) == <<js_return \o PySlice(l, 7, Len(l)) \o js_semi>>

emit_print(l) == <<js_console_log \o PySlice(l, 6, -1) \o js_call_close>>

\* An assignment emitted as two lines, a declaration and an assignment.
emit_assign_two_lines(l) ==
    LET parts == split1(l, ch_eq)
    IN  <<js_let \o strip(parts[1]) \o js_semi,
          strip(parts[1]) \o js_assign \o strip(parts[2]) \o js_semi>>

emit_assign(l) ==
    IF contains(ch_pluseq, l) THEN <<l \o js_semi>>
    ELSE LET parts == split1(l, ch_eq)
         IN  <<js_let \o strip(parts[1]) \o js_assign \o strip(parts[2]) \o js_semi>>

emit_if(l) == <<js_if \o PySlice(l, 3, -1) \o js_block_open>>

emit_else(l) == <<js_else>>

emit_for(l) == <<js_comment \o l>>

emit_while(l) == <<js_while \o PySlice(l, 6, -1) \o js_block_open>>

emit_other(l) == <<l \o js_semi>>

emit_comment(l) == <<js_comment \o PySlice(l, 1, Len(l))>>

\* The lines one iteration of the loop adds for the stripped line l.
emit(l) ==
    CASE branch(l) = "def" -> emit_def(l)
      [] branch(l) = "return" -> emit_return(l)
      [] branch(l) = "print" -> emit_print(l)
      [] branch(l) = "assign" -> emit_assign(l)
      [] branch(l) = "if" -> emit_if(l)
      [] branch(l) = "else" -> emit_else(l)
      [] branch(l) = "for" -> emit_for(l)
      [] branch(l) = "while" -> emit_while(l)
      [] branch(l) = "other" -> emit_other(l)
      [] branch(l) = "comment" -> emit_comment(l)
      [] OTHER -> << >>

\* The lines the loop adds for the lines of ls from the k-th on.
RECURSIVE translate(_, _)
translate(ls, k) ==
    IF k > Len(ls) THEN << >>
    ELSE emit(strip(ls[k])) \o translate(ls, k + 1)

\* The text a whole call of the mock's transpile returns.
transpile(text) ==
    join(NL, FreshJsLines \o translate(InputLines(text), 1) \o <<js_close>>)

(***************************************************************************)
(* The window after its construction.                                      *)
(***************************************************************************)

\* The delay of the transpile scheduled for the welcome code, in ms.
WelcomeDelay == 1000

\* The delay of the transpile scheduled by a text change, in ms.
DebounceDelay == 1500

\* The step in which time is observed to pass, in ms: the largest step at
\* which both delays fall due exactly.
TimeStep == 500

\* The ids Tk gives to pending callbacks.
TimerIds == {1, 2, 3}

\* An excerpt of the text load_welcome_code puts into the editor:
\*   # Demo Usage
\*   message = greet("Developer")
\*   print(message)
welcome_code ==
    <<"#", " ", "D", "e", "m", "o", " ", "U", "s", "a", "g", "e", "\n", "m", "e", "s", "s", "a", "g", "e", " ", "=", " ", "g", "r", "e", "e", "t", "(", "\"", "D", "e", "v", "e", "l", "o", "p", "e", "r", "\"", ")", "\n", "p", "r", "i", "n", "t", "(", "m", "e", "s", "s", "a", "g", "e", ")">>

\* A line typed by the user: total += num
typed_code == <<"t", "o", "t", "a", "l", " ", "+", "=", " ", "n", "u", "m">>

\* The texts the editor holds in the checked runs.
EditorTexts == {welcome_code, typed_code, << >>}

\* No call of transpile has been made.
NoOutcome == [kind |-> "none", text |-> << >>, error |-> ""]

NoTranspile == [code |-> << >>, is_auto |-> FALSE, outcome |-> NoOutcome]

\* No transpile scheduled for the welcome code.
NoWelcomeQueue == {}

\* The callbacks pending after load_welcome_code: the transpile of the
\* welcome code, due after WelcomeDelay.
WelcomeQueue == {[id |-> 1, remaining |-> WelcomeDelay]}

\* self.max_recent_files
max_recent_files == 10

\* A file name as the file dialogs return it: a directory and the name of
\* the file in it.
Path(dir, name) == [dir |-> dir, name |-> name]

\* current_python_file = None, and the answer of a cancelled file dialog.
NoFile == Path("", "")

\* os.path.basename(filename)
basename(filename) == filename.name

\* The Python files of the user: one more than the recent files list keeps,
\* and two of the same name in different directories.
FileNames ==
    <<"a.py", "b.py", "c.py", "d.py", "e.py", "f.py", "g.py", "h.py", "i.py",
      "j.py", "k.py">>

Paths ==
    {Path("/home", FileNames[k]) : k \in 1..Len(FileNames)}
        \cup {Path("/tmp", FileNames[1])}

\* No settings file in the home directory.
NoSettings ==
    [exists |-> FALSE, recent_files |-> << >>, font_size |-> 0, theme |-> "",
     auto_transpile |-> TRUE]

\* The settings file as save_settings writes it (the window geometry left
\* out).
Settings(files, size, theme, auto) ==
    [exists |-> TRUE, recent_files |-> files, font_size |-> size,
     theme |-> theme, auto_transpile |-> auto]

\* update_status(): the text of the file status label for the current file
\* and the modified flag.
status(file, modified) ==
    (IF file # NoFile THEN basename(file) ELSE "Untitled")
        \o (IF modified THEN "*" ELSE "")

\* The state __init__ leaves: the welcome code loaded and its transpile
\* scheduled while auto_transpile_enabled still holds its initial True, the
\* handlers bound, then the settings loaded.  found is what load_settings
\* finds in the settings file.
Constructed(translator, found) ==
    /\ transpiler = translator
    /\ settings_file = found
    /\ python_editor = welcome_code
    /\ js_editor = << >>
    /\ status_indicator = "Ready"
    /\ transpile_status_label = ""
    /\ messages = << >>
    /\ is_modified = FALSE
    /\ auto_transpile_enabled = (IF found.exists THEN found.auto_transpile ELSE TRUE)
    /\ auto_transpile_timer = 0
    /\ after_queue = WelcomeQueue
    /\ transpile_calls = 0
    /\ last_call = NoTranspile
    /\ user_acted = FALSE
    /\ current_python_file = NoFile
    /\ recent_files = (IF found.exists THEN found.recent_files ELSE << >>)
    /\ file_status_label = "Ready"
    /\ font_size = (IF found.exists THEN found.font_size ELSE 12)
    /\ current_theme = (IF found.exists THEN found.theme ELSE "dark")
    /\ running = TRUE
    /\ saved_content = welcome_code

TypeOK ==
    /\ pc \in {"idle", "loop", "done"}
    /\ idx \in Nat
    /\ error = NoError

Init ==
    /\ code \in Sources
    /\ pc = "idle"
    /\ lines = << >>
    /\ idx = 0
    /\ js_lines = << >>
    /\ result = << >>
    /\ error = NoError
    /\ first = NoCall
    /\ Constructed("mock", NoSettings)

\* The entry of transpile on text: the locals are created.
Enter(text) ==
    /\ lines' = InputLines(text)
    /\ js_lines' = FreshJsLines
    /\ idx' = 1
    /\ pc' = "loop"

\* transpile(code) is called.
Call ==
    /\ pc = "idle"
    /\ Enter(code)
    /\ UNCHANGED <<code, result, error, first, gui_vars>>

\* The loop is at a line that takes the branch named b.
AtBranch(b) == pc = "loop" /\ idx <= Len(lines) /\ branch(line) = b

\* One iteration of the loop, in the def branch.
StepDef ==
    /\ AtBranch("def")
    /\ js_lines' = js_lines \o emit_def(line)
    /\ idx' = idx + 1
    /\ UNCHANGED <<code, pc, lines, result, error, first, gui_vars>>

\* One iteration of the loop, in the return branch.
StepReturn ==
    /\ AtBranch("return")
    /\ js_lines' = js_lines \o emit_return(line)
    /\ idx' = idx + 1
    /\ UNCHANGED <<code, pc, lines, result, error, first, gui_vars>>

\* One iteration of the loop, in the print branch.
StepPrint ==
    /\ AtBranch("print")
    /\ js_lines' = js_lines \o emit_print(line)
    /\ idx' = idx + 1
    /\ UNCHANGED <<code, pc, lines, result, error, first, gui_vars>>

\* One iteration of the loop, in the assign branch.
StepAssign ==
    /\ AtBranch("assign")
    /\ js_lines' = js_lines \o emit_assign(line)
    /\ idx' = idx + 1
    /\ UNCHANGED <<code, pc, lines, result, error, first, gui_vars>>

\* One iteration of the loop, in the if branch.
StepIf ==
    /\ AtBranch("if")
    /\ js_lines' = js_lines \o emit_if(line)
    /\ idx' = idx + 1
    /\ UNCHANGED <<code, pc, lines, result, error, first, gui_vars>>

\* One iteration of the loop, in the else branch.
StepElse ==
    /\ AtBranch("else")
    /\ js_lines' = js_lines \o emit_else(line)
    /\ idx' = idx + 1
    /\ UNCHANGED <<code, pc, lines, result, error, first, gui_vars>>

\* One iteration of the loop, in the for branch.
StepFor ==
    /\ AtBranch("for")
    /\ js_lines' = js_lines \o emit_for(line)
    /\ idx' = idx + 1
    /\ UNCHANGED <<code, pc, lines, result, error, first, gui_vars>>

\* One iteration of the loop, in the while branch.
StepWhile ==
    /\ AtBranch("while")
    /\ js_lines' = js_lines \o emit_while(line)
    /\ idx' = idx + 1
    /\ UNCHANGED <<code, pc, lines, result, error, first, gui_vars>>

\* One iteration of the loop, in the other branch.
StepOther ==
    /\ AtBranch("other")
    /\ js_lines' = js_lines \o emit_other(line)
    /\ idx' = idx + 1
    /\ UNCHANGED <<code, pc, lines, result, error, first, gui_vars>>

\* One iteration of the loop, in the comment branch.
StepComment ==
    /\ AtBranch("comment")
    /\ js_lines' = js_lines \o emit_comment(line)
    /\ idx' = idx + 1
    /\ UNCHANGED <<code, pc, lines, result, error, first, gui_vars>>

\* One iteration of the loop on an empty line: no branch is taken.
StepBlank ==
    /\ AtBranch("blank")
    /\ idx' = idx + 1
    /\ UNCHANGED <<code, pc, lines, js_lines, result, error, first, gui_vars>>

\* The loop is over: the closing brace is appended and the text returned.
Return ==
    /\ pc = "loop"
    /\ idx > Len(lines)
    /\ js_lines' = Append(js_lines, js_close)
    /\ result' = join(NL, js_lines')
    /\ pc' = "done"
    /\ UNCHANGED <<code, lines, idx, error, first, gui_vars>>

\* A later call of transpile, on the source text of the first call or on
\* another one: the call before it has returned and its locals are gone.
CallAgain ==
    /\ pc = "done"
    /\ first' = IF first.called
                THEN [first EXCEPT !.between = @ \/ code # first.code]
                ELSE [called |-> TRUE, code |-> code, text |-> result,
                      between |-> FALSE]
    /\ \E text \in {first'.code} \cup InterveningSources :
           code' = text /\ Enter(text)
    /\ result' = << >>
    /\ UNCHANGED <<error, gui_vars>>

Step ==
    \/ StepDef \/ StepReturn \/ StepPrint \/ StepAssign \/ StepIf \/ StepElse
    \/ StepFor \/ StepWhile \/ StepOther \/ StepComment \/ StepBlank

Next == Call \/ Step \/ Return

Spec == Init /\ [][Next]_vars

InitTwice ==
    /\ code \in TwiceSources
    /\ pc = "idle"
    /\ lines = << >>
    /\ idx = 0
    /\ js_lines = << >>
    /\ result = << >>
    /\ error = NoError
    /\ first = NoCall
    /\ Constructed("mock", NoSettings)

NextTwice == Call \/ Step \/ Return \/ CallAgain

SpecTwice == InitTwice /\ [][NextTwice]_vars

(***************************************************************************)
(* The application window: the handlers of ModernTranspilerGUI.  Each      *)
(* handler runs to its end before the next event is taken (Tk's single     *)
(* event loop), so each is one step.                                       *)
(***************************************************************************)

\* The most calls of transpiler.transpile in a checked run.
MaxCalls == 2

\* A line of the message area: add_message(message, msg_type).  head and
\* detail are the fixed and the variable part of the text, lines the number
\* of lines a success message reports.
Message(msg_type, head, detail, n) ==
    [msg_type |-> msg_type, head |-> head, detail |-> detail, lines |-> n]

\* The mock's translations of the texts transpile_code can pass to it: the
\* stripped texts of the editor.
Translations == [text \in {strip(t) : t \in EditorTexts} |-> transpile(text)]

\* What a call of the mock's transpile does: it returns, and never raises.
MockOutcomes(text) ==
    {[kind |-> "ok", text |-> Translations[text], error |-> ""]}

\* The text an imported transpiler returns: some text, not the mock's.
package_js == <<"/", "/", " ", "j", "s">>

\* What a call of the transpile of an imported transpiler package does: it
\* returns a translation or raises TranspilerError; any other exception may
\* escape it as well.
PackageOutcomes(text) ==
    {[kind |-> "ok", text |-> package_js, error |-> ""],
     [kind |-> "TranspilerError", text |-> << >>, error |-> "line 1: unexpected token"],
     [kind |-> "Exception", text |-> << >>, error |-> "internal error"]}

Outcomes(text) ==
    IF transpiler = "mock" THEN MockOutcomes(text) ELSE PackageOutcomes(text)

\* The JavaScript pane left as it was before the call.
StalePane == js_editor

\* The JavaScript pane after transpile_code has cleared it for the call.
ClearedPane == << >>

\* len(js_code.split('\n')): one more than the number of line breaks.
LineCount(text) == Cardinality({k \in 1..Len(text) : text[k] = "\n"}) + 1

\* clear_output()
clear_output ==
    /\ js_editor' = << >>
    /\ messages' = <<Message("info", "Output cleared", "", 0)>>

\* What transpile_code shows for the outcome of its call of transpile.
show(is_auto, outcome) ==
    LET mode == IF is_auto THEN "Auto-transpiled" ELSE "Transpiled"
    IN  CASE outcome.kind = "ok" ->
               /\ js_editor' = outcome.text
               /\ status_indicator' = "Success"
               /\ messages' = Append(messages,
                      Message("success", mode, "successfully! Generated",
                              LineCount(outcome.text)))
               /\ transpile_status_label' = mode
          [] outcome.kind = "TranspilerError" ->
               /\ js_editor' = ClearedPane
               /\ status_indicator' = "Error"
               /\ messages' = Append(messages,
                      Message("error", "Transpilation Error", outcome.error, 0))
               /\ transpile_status_label' = "Transpilation failed"
          [] outcome.kind = "Exception" ->
               /\ js_editor' = ClearedPane
               /\ status_indicator' = "Error"
               /\ messages' = Append(messages,
                      Message("error", "Unexpected Error", outcome.error, 0))
               /\ transpile_status_label' = "Unexpected error"

\* transpile_code(is_auto)
transpile_code(is_auto) ==
    LET python_code == strip(python_editor)
    IN  IF python_code = << >>
        THEN /\ clear_output
             /\ status_indicator' = "Ready"
             /\ transpile_status_label' = "No code to transpile"
             /\ UNCHANGED <<transpile_calls, last_call>>
        ELSE /\ transpile_calls < MaxCalls
             /\ \E outcome \in Outcomes(python_code) :
                    /\ transpile_calls' = transpile_calls + 1
                    /\ last_call' = [code |-> python_code, is_auto |-> is_auto,
                                     outcome |-> outcome]
                    /\ show(is_auto, outcome)

\* root.after(ms, self.auto_transpile) on the pending callbacks queue: the
\* new callback with a fresh id.
after(queue, ms) ==
    LET used == {t.id : t \in queue}
        id   == CHOOSE i \in TimerIds \ used : \A j \in TimerIds \ used : i <= j
    IN  [id |-> id, remaining |-> ms]

\* root.after_cancel(id) on the pending callbacks queue.
after_cancel(queue, id) == {t \in queue : t.id # id}

\* schedule_auto_transpile()
schedule_auto_transpile ==
    LET kept == IF auto_transpile_timer # 0
                THEN after_cancel(after_queue, auto_transpile_timer)
                ELSE after_queue
        timer == after(kept, DebounceDelay)
    IN  /\ after_queue' = kept \cup {timer}
        /\ auto_transpile_timer' = timer.id

\* A key is released in the editor, after it has made the editor's text
\* whatever it is now: on_text_change(event).
on_text_change ==
    /\ running
    /\ \E text \in EditorTexts : python_editor' = text
    /\ is_modified' = TRUE
    /\ file_status_label' = status(current_python_file, TRUE)
    /\ IF auto_transpile_enabled
       THEN schedule_auto_transpile
       ELSE UNCHANGED <<auto_transpile_timer, after_queue>>
    /\ user_acted' = TRUE
    /\ UNCHANGED <<transpiler, settings_file, js_editor, status_indicator,
                   transpile_status_label, messages, auto_transpile_enabled,
                   transpile_calls, last_call>>
    /\ UNCHANGED transpile_vars
    /\ UNCHANGED <<current_python_file, recent_files, font_size, current_theme,
                   running, saved_content>>

\* The user ticks or unticks the Auto-transpile checkbutton.
toggle_auto_transpile ==
    /\ running
    /\ auto_transpile_enabled' = ~auto_transpile_enabled
    /\ user_acted' = TRUE
    /\ UNCHANGED <<transpiler, settings_file, python_editor, js_editor,
                   status_indicator, transpile_status_label, messages,
                   is_modified, auto_transpile_timer, after_queue,
                   transpile_calls, last_call>>
    /\ UNCHANGED transpile_vars
    /\ UNCHANGED file_vars

\* transpile_now(): F5 or the toolbar button.
transpile_now ==
    /\ running
    /\ transpile_code(FALSE)
    /\ user_acted' = TRUE
    /\ UNCHANGED <<transpiler, settings_file, python_editor, is_modified,
                   auto_transpile_enabled, auto_transpile_timer, after_queue>>
    /\ UNCHANGED transpile_vars
    /\ UNCHANGED file_vars

\* The pending callback t is due and Tk runs it: auto_transpile().
auto_transpile(t) ==
    /\ running
    /\ t.remaining = 0
    /\ after_queue' = after_queue \ {t}
    /\ IF auto_transpile_enabled
       THEN transpile_code(TRUE)
       ELSE UNCHANGED <<js_editor, status_indicator, transpile_status_label,
                        messages, transpile_calls, last_call>>
    /\ UNCHANGED <<transpiler, settings_file, python_editor, is_modified,
                   auto_transpile_enabled, auto_transpile_timer, user_acted>>
    /\ UNCHANGED transpile_vars
    /\ UNCHANGED file_vars

\* Tk runs a callback that is due.
timer_fires == \E t \in after_queue : auto_transpile(t)

\* Time passes while callbacks are pending and none is due.
time_passes ==
    /\ running
    /\ after_queue # {}
    /\ \A t \in after_queue : t.remaining >= TimeStep
    /\ after_queue' =
           {[t EXCEPT !.remaining = @ - TimeStep] : t \in after_queue}
    /\ UNCHANGED <<transpiler, settings_file, python_editor, js_editor,
                   status_indicator, transpile_status_label, messages,
                   is_modified, auto_transpile_enabled, auto_transpile_timer,
                   transpile_calls, last_call, user_acted>>
    /\ UNCHANGED transpile_vars
    /\ UNCHANGED file_vars

\* The window is constructed, with either translator and any settings file.
InitGui ==
    /\ code = << >>
    /\ pc = "idle"
    /\ lines = << >>
    /\ idx = 0
    /\ js_lines = << >>
    /\ result = << >>
    /\ error = NoError
    /\ first = NoCall
    /\ \E translator \in {"mock", "package"} :
           \E found \in {NoSettings, Settings(<< >>, 12, "dark", TRUE),
                          Settings(<< >>, 12, "dark", FALSE)} :
               Constructed(translator, found)

NextGui ==
    \/ on_text_change
    \/ toggle_auto_transpile
    \/ transpile_now
    \/ timer_fires
    \/ time_passes

\* Tk's event loop lets time pass and runs every callback that is due.
SpecGui ==
    InitGui /\ [][NextGui]_vars /\ WF_vars(time_passes) /\ WF_vars(timer_fires)

(***************************************************************************)
(* The file, settings and view handlers.  The file system and the dialogs  *)
(* are outside the program: what a dialog returns, whether a file exists,  *)
(* what a read yields and whether a write succeeds are inputs of the       *)
(* handler that asks.                                                      *)
(***************************************************************************)

\* The longest message log of a checked run of the file handlers.
MaxMessages == 3

\* The recent files list of a settings file written when the list was full.
FullList == [k \in 1..max_recent_files |-> Path("/home", FileNames[k])]

\* The files the user picks in the file dialogs and in the Recent Files
\* menu: the last of FullList and a file not in it.
UserFiles ==
    {Path("/home", FileNames[max_recent_files]),
     Path("/home", FileNames[max_recent_files + 1])}

\* What a file dialog returns: a file, or nothing when it is cancelled.
DialogAnswers == UserFiles \cup {NoFile}

\* What reading a file yields: its text, or an exception.
ReadError == <<"IOError">>
FileTexts == {typed_code}
ReadOutcomes == FileTexts \cup {ReadError}

\* What askopenfilename and the read of the file it names yield together.
Opened ==
    {[file |-> NoFile, content |-> ReadError]}
        \cup [file : UserFiles, content : ReadOutcomes]

\* samples[sample_name] of load_sample, an excerpt of the "welcome" sample:
\*   message = greet("World")
\*   print(message)
samples ==
    [sample_name \in {"welcome"} |->
        <<"m", "e", "s", "s", "a", "g", "e", " ", "=", " ", "g", "r", "e", "e", "t", "(", "\"", "W", "o", "r", "l", "d", "\"", ")", "\n", "p", "r", "i", "n", "t", "(", "m", "e", "s", "s", "a", "g", "e", ")">>]

sample_titles == [sample_name \in {"welcome"} |-> "Welcome Example"]

\* list.remove(x): files without the first occurrence of filename.
remove(files, filename) ==
    LET at == CHOOSE k \in 1..Len(files) :
                  files[k] = filename /\ \A j \in 1..(k - 1) : files[j] # filename
    IN  SubSeq(files, 1, at - 1) \o SubSeq(files, at + 1, Len(files))

\* Is filename in files.
in_list(filename, files) == \E k \in 1..Len(files) : files[k] = filename

\* The recent files list with filename put in front and no entry removed.
inserted_unremoved(files, filename) ==
    LET inserted == <<filename>> \o files
    IN  IF Len(inserted) > max_recent_files
        THEN SubSeq(inserted, 1, max_recent_files) ELSE inserted

\* add_to_recent_files(filename): the recent files list it leaves.
add_to_recent_files(files, filename) ==
    LET inserted == <<filename>> \o (IF in_list(filename, files)
                                     THEN remove(files, filename) ELSE files)
    IN  IF Len(inserted) > max_recent_files
        THEN SubSeq(inserted, 1, max_recent_files) ELSE inserted

\* The fields and widgets the save methods work on, as they are now.
Here ==
    [is_modified |-> is_modified,
     current_python_file |-> current_python_file,
     recent_files |-> recent_files,
     file_status_label |-> file_status_label,
     transpile_status_label |-> transpile_status_label,
     messages |-> messages,
     saved_content |-> saved_content]

\* The fields and widgets of s become the state.
Store(s) ==
    /\ is_modified' = s.is_modified
    /\ current_python_file' = s.current_python_file
    /\ recent_files' = s.recent_files
    /\ file_status_label' = s.file_status_label
    /\ transpile_status_label' = s.transpile_status_label
    /\ messages' = s.messages
    /\ saved_content' = s.saved_content

\* save_to_file(filename) from s: what it leaves when the write succeeds
\* (written) and when it raises.  update_status runs inside it, with
\* current_python_file as it is then.
save_to_file(s, filename, written) ==
    IF written
    THEN [s EXCEPT !.is_modified = FALSE,
                   !.file_status_label = status(s.current_python_file, FALSE),
                   !.messages = Append(@, Message("success", "Saved:",
                                                  basename(filename), 0)),
                   !.transpile_status_label = "Saved: " \o basename(filename),
                   !.saved_content = python_editor]
    ELSE s

\* save_as_file() from s, the dialog answering filename.
save_as_file(s, filename, written) ==
    IF filename # NoFile /\ written
    THEN LET t == save_to_file(s, filename, written)
         IN  [t EXCEPT !.current_python_file = filename,
                       !.recent_files = add_to_recent_files(@, filename)]
    ELSE s

\* save_file() from s.
save_file(s, filename, written) ==
    IF s.current_python_file # NoFile
    THEN save_to_file(s, s.current_python_file, written)
    ELSE save_as_file(s, filename, written)

\* The value save_file() returns.
save_file_returns(s, filename, written) ==
    written /\ (s.current_python_file # NoFile \/ filename # NoFile)

\* The answers the user and the file system can give in the
\* 'if self.is_modified:' block that opens new_file, open_file,
\* open_recent_file and exit_application: the answer to the question, the
\* file name given to Save As when save_file asks for one, and whether the
\* write succeeds.  Without the block there is nothing to answer.
NoAnswer == [answer |-> "none", filename |-> NoFile, written |-> FALSE]

Prompted ==
    IF ~is_modified THEN {NoAnswer}
    ELSE {[answer |-> "cancel", filename |-> NoFile, written |-> FALSE],
          [answer |-> "no", filename |-> NoFile, written |-> FALSE]}
         \cup [answer : {"yes"},
               filename : IF current_python_file # NoFile THEN {NoFile}
                          ELSE DialogAnswers,
               written : BOOLEAN]

\* Whether the handler goes on after the block, and what the block leaves.
goes_on(answer, filename, written) ==
    is_modified =>
        \/ answer = "no"
        \/ answer = "yes" /\ save_file_returns(Here, filename, written)

after_prompt(answer, filename, written) ==
    IF is_modified /\ answer = "yes"
    THEN save_file(Here, filename, written) ELSE Here

\* The message log after clear_output().
OutputCleared == <<Message("info", "Output cleared", "", 0)>>

\* File > Save, Ctrl+S and the toolbar button: save_file().
menu_save ==
    /\ running
    /\ \E filename \in DialogAnswers, written \in BOOLEAN :
           Store(save_file(Here, filename, written))
    /\ Len(messages') <= MaxMessages
    /\ user_acted' = TRUE
    /\ UNCHANGED <<transpiler, settings_file, python_editor, js_editor,
                   status_indicator, auto_transpile_enabled,
                   auto_transpile_timer, after_queue, transpile_calls,
                   last_call, font_size, current_theme, running>>
    /\ UNCHANGED transpile_vars

\* File > Save As and Ctrl+Shift+S: save_as_file().
menu_save_as ==
    /\ running
    /\ \E filename \in DialogAnswers, written \in BOOLEAN :
           Store(save_as_file(Here, filename, written))
    /\ Len(messages') <= MaxMessages
    /\ user_acted' = TRUE
    /\ UNCHANGED <<transpiler, settings_file, python_editor, js_editor,
                   status_indicator, auto_transpile_enabled,
                   auto_transpile_timer, after_queue, transpile_calls,
                   last_call, font_size, current_theme, running>>
    /\ UNCHANGED transpile_vars

\* new_file()
new_file ==
    /\ running
    /\ \E p \in Prompted :
           IF goes_on(p.answer, p.filename, p.written)
           THEN LET s == after_prompt(p.answer, p.filename, p.written)
                IN  /\ python_editor' = << >>
                    /\ js_editor' = << >>
                    /\ status_indicator' = "Ready"
                    /\ current_python_file' = NoFile
                    /\ is_modified' = FALSE
                    /\ file_status_label' = status(NoFile, FALSE)
                    /\ messages' = Append(OutputCleared,
                           Message("info", "New file created", "", 0))
                    /\ transpile_status_label' = "New file ready"
                    /\ recent_files' = s.recent_files
                    /\ saved_content' = << >>
           ELSE UNCHANGED <<python_editor, js_editor, status_indicator,
                            current_python_file, is_modified,
                            file_status_label, messages,
                            transpile_status_label, recent_files,
                            saved_content>>
    /\ user_acted' = TRUE
    /\ UNCHANGED <<transpiler, settings_file, auto_transpile_enabled,
                   auto_transpile_timer, after_queue, transpile_calls,
                   last_call, font_size, current_theme, running>>
    /\ UNCHANGED transpile_vars

\* open_file(): opened is what askopenfilename returns and content what
\* reading that file yields.
open_file ==
    /\ running
    /\ \E p \in Prompted, o \in Opened :
           IF goes_on(p.answer, p.filename, p.written)
           THEN LET s == after_prompt(p.answer, p.filename, p.written)
                    opened == o.file
                    content == o.content
                IN  IF opened # NoFile /\ content # ReadError
                    THEN /\ python_editor' = content
                         /\ current_python_file' = opened
                         /\ is_modified' = FALSE
                         /\ recent_files' =
                                add_to_recent_files(s.recent_files, opened)
                         /\ file_status_label' = status(opened, FALSE)
                         /\ IF auto_transpile_enabled
                            THEN schedule_auto_transpile
                            ELSE UNCHANGED <<auto_transpile_timer, after_queue>>
                         /\ messages' = Append(s.messages,
                                Message("success", "Opened:", basename(opened), 0))
                         /\ transpile_status_label' = "Opened: " \o basename(opened)
                         /\ saved_content' = content
                    ELSE /\ Store(s)
                         /\ UNCHANGED <<python_editor, auto_transpile_timer,
                                        after_queue>>
           ELSE UNCHANGED <<python_editor, current_python_file, is_modified,
                            recent_files, file_status_label,
                            auto_transpile_timer, after_queue, messages,
                            transpile_status_label, saved_content>>
    /\ Len(messages') <= MaxMessages
    /\ user_acted' = TRUE
    /\ UNCHANGED <<transpiler, settings_file, js_editor, status_indicator,
                   auto_transpile_enabled, transpile_calls, last_call,
                   font_size, current_theme, running>>
    /\ UNCHANGED transpile_vars

\* open_recent_file(filename), for an entry of the Recent Files menu: found
\* is os.path.exists(filename) and content what reading the file yields.
open_recent_file ==
    /\ running
    /\ \E recent \in {f \in UserFiles : in_list(f, recent_files)},
          found \in BOOLEAN, p \in Prompted, content \in ReadOutcomes :
           IF ~found
           THEN /\ recent_files' = remove(recent_files, recent)
                /\ UNCHANGED <<python_editor, current_python_file, is_modified,
                               file_status_label, auto_transpile_timer,
                               after_queue, messages, transpile_status_label,
                               saved_content>>
           ELSE IF goes_on(p.answer, p.filename, p.written)
           THEN LET s == after_prompt(p.answer, p.filename, p.written)
                IN  IF content # ReadError
                    THEN /\ python_editor' = content
                         /\ current_python_file' = recent
                         /\ is_modified' = FALSE
                         /\ file_status_label' = status(recent, FALSE)
                         /\ IF auto_transpile_enabled
                            THEN schedule_auto_transpile
                            ELSE UNCHANGED <<auto_transpile_timer, after_queue>>
                         /\ messages' = Append(s.messages,
                                Message("success", "Opened recent:",
                                        basename(recent), 0))
                         /\ recent_files' = s.recent_files
                         /\ transpile_status_label' = s.transpile_status_label
                         /\ saved_content' = content
                    ELSE /\ Store(s)
                         /\ UNCHANGED <<python_editor, auto_transpile_timer,
                                        after_queue>>
           ELSE UNCHANGED <<python_editor, current_python_file, is_modified,
                            recent_files, file_status_label,
                            auto_transpile_timer, after_queue, messages,
                            transpile_status_label, saved_content>>
    /\ Len(messages') <= MaxMessages
    /\ user_acted' = TRUE
    /\ UNCHANGED <<transpiler, settings_file, js_editor, status_indicator,
                   auto_transpile_enabled, transpile_calls, last_call,
                   font_size, current_theme, running>>
    /\ UNCHANGED transpile_vars

\* load_sample(sample_name), from the Samples menu: continue is what
\* messagebox.askyesno returns.
load_sample ==
    /\ running
    /\ \E sample_name \in DOMAIN samples, continue \in BOOLEAN :
           IF is_modified /\ ~continue
           THEN UNCHANGED <<python_editor, is_modified, current_python_file,
                            file_status_label, auto_transpile_timer,
                            after_queue, messages, saved_content>>
           ELSE /\ python_editor' = samples[sample_name]
                /\ is_modified' = FALSE
                /\ current_python_file' = NoFile
                /\ file_status_label' = status(NoFile, FALSE)
                /\ IF auto_transpile_enabled
                   THEN schedule_auto_transpile
                   ELSE UNCHANGED <<auto_transpile_timer, after_queue>>
                /\ messages' = Append(messages,
                       Message("info", "Loaded sample:",
                               sample_titles[sample_name], 0))
                /\ saved_content' = samples[sample_name]
    /\ Len(messages') <= MaxMessages
    /\ user_acted' = TRUE
    /\ UNCHANGED <<transpiler, settings_file, js_editor, status_indicator,
                   transpile_status_label, auto_transpile_enabled,
                   transpile_calls, last_call, recent_files, font_size,
                   current_theme, running>>
    /\ UNCHANGED transpile_vars

\* Edit > Cut chosen with the mouse, the whole text selected: cut().  The
\* <<Cut>> event removes the selection; no key is released, so that
\* on_text_change does not run.
cut ==
    /\ running
    /\ python_editor # << >>
    /\ python_editor' = << >>
    /\ user_acted' = TRUE
    /\ UNCHANGED <<transpiler, settings_file, js_editor, status_indicator,
                   transpile_status_label, messages, is_modified,
                   auto_transpile_enabled, auto_transpile_timer, after_queue,
                   transpile_calls, last_call>>
    /\ UNCHANGED transpile_vars
    /\ UNCHANGED file_vars

\* Edit > Paste chosen with the mouse: paste().  The <<Paste>> event inserts
\* the text of the clipboard at the end of the editor's text.
paste ==
    /\ running
    /\ \E clipboard \in EditorTexts \ {<< >>} :
           /\ python_editor \o clipboard \in EditorTexts
           /\ python_editor' = python_editor \o clipboard
    /\ user_acted' = TRUE
    /\ UNCHANGED <<transpiler, settings_file, js_editor, status_indicator,
                   transpile_status_label, messages, is_modified,
                   auto_transpile_enabled, auto_transpile_timer, after_queue,
                   transpile_calls, last_call>>
    /\ UNCHANGED transpile_vars
    /\ UNCHANGED file_vars

\* save_settings(): the settings file it leaves, written or not.
save_settings(files, written) ==
    IF written
    THEN Settings(files, font_size, current_theme, auto_transpile_enabled)
    ELSE settings_file

\* exit_application(): File > Exit, Ctrl+Q and the close button of the
\* window.  stored is whether the write of save_settings succeeds.
exit_application ==
    /\ running
    /\ \E p \in Prompted, stored \in BOOLEAN :
           IF goes_on(p.answer, p.filename, p.written)
           THEN LET s == after_prompt(p.answer, p.filename, p.written)
                IN  /\ Store(s)
                    /\ settings_file' = save_settings(s.recent_files, stored)
                    /\ running' = FALSE
           ELSE UNCHANGED <<is_modified, current_python_file, recent_files,
                            file_status_label, transpile_status_label,
                            messages, saved_content, settings_file, running>>
    /\ Len(messages') <= MaxMessages
    /\ user_acted' = TRUE
    /\ UNCHANGED <<transpiler, python_editor, js_editor, status_indicator,
                   auto_transpile_enabled, auto_transpile_timer, after_queue,
                   transpile_calls, last_call, font_size, current_theme>>
    /\ UNCHANGED transpile_vars

\* The window is constructed with the mock transpiler, without a settings
\* file or with one whose recent files list is full.
InitFiles ==
    /\ code = << >>
    /\ pc = "idle"
    /\ lines = << >>
    /\ idx = 0
    /\ js_lines = << >>
    /\ result = << >>
    /\ error = NoError
    /\ first = NoCall
    /\ \E found \in {NoSettings, Settings(FullList, 12, "dark", TRUE)} :
           Constructed("mock", found)

NextFiles ==
    \/ on_text_change
    \/ cut
    \/ paste
    \/ new_file
    \/ open_file
    \/ menu_save
    \/ menu_save_as
    \/ load_sample
    \/ open_recent_file
    \/ exit_application

\* The user works with files; no time passes.
SpecFiles == InitFiles /\ [][NextFiles]_vars

\* The other one of the two themes: "light" if current == "dark" else "dark".
other_theme(current) == IF current = "dark" THEN "light" ELSE "dark"

\* What Tk does to the variable of a checkbutton menu entry when the entry
\* is chosen, before it runs the entry's command: the variable gets the
\* offvalue if it holds the onvalue, the onvalue otherwise.
checkbutton(value, onvalue, offvalue) ==
    IF value = onvalue THEN offvalue ELSE onvalue

\* toggle_theme() with the theme variable holding current.
toggle_theme_from(current) ==
    /\ current_theme' = other_theme(current)
    /\ messages' = Append(messages,
           Message("info", "Switched to theme",
                   IF other_theme(current) = "light" THEN "Light" ELSE "Dark", 0))

\* The Theme button of the toolbar: toggle_theme().
toggle_theme ==
    /\ running
    /\ toggle_theme_from(current_theme)
    /\ Len(messages') <= MaxMessages
    /\ user_acted' = TRUE
    /\ UNCHANGED <<transpiler, settings_file, python_editor, js_editor,
                   status_indicator, transpile_status_label, is_modified,
                   auto_transpile_enabled, auto_transpile_timer, after_queue,
                   transpile_calls, last_call, current_python_file,
                   recent_files, file_status_label, font_size, running,
                   saved_content>>
    /\ UNCHANGED transpile_vars

\* View > Dark Theme: the checkbutton entry sets its variable, current_theme,
\* and then runs its command, toggle_theme.
dark_theme_menu ==
    /\ running
    /\ toggle_theme_from(checkbutton(current_theme, "dark", "light"))
    /\ Len(messages') <= MaxMessages
    /\ user_acted' = TRUE
    /\ UNCHANGED <<transpiler, settings_file, python_editor, js_editor,
                   status_indicator, transpile_status_label, is_modified,
                   auto_transpile_enabled, auto_transpile_timer, after_queue,
                   transpile_calls, last_call, current_python_file,
                   recent_files, file_status_label, font_size, running,
                   saved_content>>
    /\ UNCHANGED transpile_vars

\* The font size after a zoom_in that does not look at the size it has.
larger_unchecked(current_size) == current_size + 1

\* The font size zoom_in leaves.
larger(current_size) ==
    IF current_size < 24 THEN current_size + 1 ELSE current_size

\* The font size zoom_out leaves.
smaller(current_size) ==
    IF current_size > 8 THEN current_size - 1 ELSE current_size

\* What the zoom handlers leave alone.
zoom_unchanged ==
    /\ UNCHANGED <<transpiler, settings_file, python_editor, js_editor,
                   status_indicator, transpile_status_label, messages,
                   is_modified, auto_transpile_enabled, auto_transpile_timer,
                   after_queue, transpile_calls, last_call,
                   current_python_file, recent_files, file_status_label,
                   current_theme, running, saved_content>>
    /\ UNCHANGED transpile_vars

\* zoom_in(): View > Zoom In, Ctrl++ and the + button.
zoom_in ==
    /\ running
    /\ font_size' = larger(font_size)
    /\ user_acted' = TRUE
    /\ zoom_unchanged

\* zoom_out(): View > Zoom Out, Ctrl+- and the - button.
zoom_out ==
    /\ running
    /\ font_size' = smaller(font_size)
    /\ user_acted' = TRUE
    /\ zoom_unchanged

\* reset_zoom(): View > Reset Zoom and Ctrl+0.
reset_zoom ==
    /\ running
    /\ font_size' = 12
    /\ user_acted' = TRUE
    /\ zoom_unchanged

\* The window is constructed with the mock transpiler, without a settings
\* file or with one written at the largest font size in the light theme.
InitView ==
    /\ code = << >>
    /\ pc = "idle"
    /\ lines = << >>
    /\ idx = 0
    /\ js_lines = << >>
    /\ result = << >>
    /\ error = NoError
    /\ first = NoCall
    /\ \E found \in {NoSettings, Settings(<< >>, 24, "light", TRUE)} :
           Constructed("mock", found)

NextView ==
    \/ toggle_theme
    \/ dark_theme_menu
    \/ zoom_in
    \/ zoom_out
    \/ reset_zoom
    \/ exit_application

\* The user changes the view and closes the window; no time passes.
SpecView == InitView /\ [][NextView]_vars

(***************************************************************************)
(* C1.  Repeated calls.                                                    *)
(***************************************************************************)

\* C1: transpile is a pure function of its input: whenever a call returns on
\* the source text of the first call of the run, whatever calls were made in
\* between, it returns the text the first call returned.
C1_SameInputSameOutput ==
    (pc = "done" /\ first.called /\ code = first.code) => result = first.text

\* A later call on the first call's source text, made after a call on
\* another text, has returned a translation holding a translated line.
C1_Witness ==
    /\ pc = "done"
    /\ first.called
    /\ first.between
    /\ code = first.code
    /\ Len(js_lines) > 3
    /\ result = first.text

(***************************************************************************)
(* Reading the source text as Python reads it: what the statements about   *)
(* the translation refer to.                                               *)
(***************************************************************************)

\* s.endswith(suffix)
endswith(s, suffix) ==
    Len(s) >= Len(suffix) /\ SubSeq(s, Len(s) - Len(suffix) + 1, Len(s)) = suffix

\* The width of the leading whitespace of a raw source line.
Indent(l) == RunEnd(l, 1, Whitespace) - 1

\* Position k of l lies inside a string literal opened earlier on the line.
InString(l, k) == Cardinality({j \in 1..(k - 1) : l[j] = "\""}) % 2 = 1

\* The statement of a raw source line: the line without its trailing
\* comment and without surrounding whitespace.
Statement(l) ==
    LET marks == {k \in 1..Len(l) : l[k] = "#" /\ ~InString(l, k)}
    IN  IF marks = {} THEN strip(l)
        ELSE strip(SubSeq(l, 1, (CHOOSE k \in marks : \A m \in marks : k <= m) - 1))

\* The raw source lines that hold a statement (not blank, not only a comment).
StatementLines == {k \in 1..Len(lines) : Statement(lines[k]) # << >>}

\* The statement of l opens a block.
IsHeader(l) == Statement(l) # << >> /\ endswith(Statement(l), <<":">>)

\* The indentation of the statements follows Python's block rule: the line
\* after a header is deeper than the header, any other statement is at the
\* level of an enclosing statement before it, and an else is at the level of
\* an if whose body lies between them.
WellIndented ==
    \A k \in StatementLines :
        LET before == {j \in StatementLines : j < k}
            prev   == CHOOSE j \in before : \A m \in before : m <= j
        IN  /\ before = {} => Indent(lines[k]) = 0 \/ k = 1
            /\ before # {} =>
                 IF IsHeader(lines[prev])
                 THEN Indent(lines[k]) > Indent(lines[prev])
                 ELSE /\ Indent(lines[k]) <= Indent(lines[prev])
                      /\ \E j \in before : Indent(lines[j]) = Indent(lines[k])
            /\ Statement(lines[k]) = kw_else =>
                 \E j \in before :
                     /\ startswith(Statement(lines[j]), kw_if)
                     /\ Indent(lines[j]) = Indent(lines[k])
                     /\ j < prev
                     /\ \A m \in before : m > j => Indent(lines[m]) > Indent(lines[k])
            /\ IsHeader(lines[k]) => \E m \in StatementLines : m > k

\* The lines of the translation between its two heading lines and the
\* closing line appended on return.
BodyLines == 3..(Len(js_lines) - 1)

\* The number of characters c among the first k characters of text.
Count(text, c, k) == Cardinality({j \in 1..k : text[j] = c})

\* Every closing brace of text closes a block opened before it, and every
\* block is closed.
Balanced(text) ==
    /\ \A k \in 1..Len(text) : Count(text, "}", k) <= Count(text, "{", k)
    /\ Count(text, "{", Len(text)) = Count(text, "}", Len(text))

(***************************************************************************)
(* C2.  Complete translation or an error.                                  *)
(***************************************************************************)

\* The body lines of the translation that are code (not a // comment).
TranslatedCodeLines ==
    {k \in BodyLines : ~startswith(js_lines[k], <<"/", "/">>)}

\* C2: a call that returns has raised nothing and its text holds translated
\* code for every non-blank, non-comment line of the input: no statement is
\* dropped or left untranslated.
C2_CompleteOrError ==
    pc = "done" =>
        /\ ~error.raised
        /\ Cardinality(TranslatedCodeLines) >= Cardinality(StatementLines)

(***************************************************************************)
(* C3.  Well formed output for the supported statement forms.              *)
(***************************************************************************)

\* A statement of one of the supported forms: def, return, if, else, while,
\* for, a print call, or an assignment of a closed expression.
SupportedStatement(s) ==
    \/ startswith(s, kw_def) /\ endswith(s, <<")", ":">>)
    \/ startswith(s, kw_return)
    \/ startswith(s, kw_if) /\ endswith(s, <<":">>)
    \/ s = kw_else
    \/ startswith(s, kw_while) /\ endswith(s, <<":">>)
    \/ startswith(s, kw_for) /\ contains(<<" ", "i", "n", " ", "r", "a", "n", "g", "e", "(">>, s) /\ endswith(s, <<")", ":">>)
    \/ startswith(s, kw_print) /\ endswith(s, <<")">>)
    \/ /\ s[1] \in WordChars
       /\ contains(ch_eq, s)
       /\ ~contains(<<"{">>, s)
       /\ ~InString(s, Len(s) + 1)
       /\ ~endswith(s, <<":">>)

\* The input is a program of supported statements only.
SupportedProgram ==
    /\ StatementLines # {}
    /\ WellIndented
    /\ \A k \in StatementLines : SupportedStatement(Statement(lines[k]))

\* C3: for a program of supported statements, transpile returns a text in
\* which every brace opened is closed and every closing brace closes a block.
C3_BracesBalanced ==
    (pc = "done" /\ SupportedProgram) => (~error.raised /\ Balanced(result))

(***************************************************************************)
(* C4.  Unsupported constructs are rejected.                               *)
(***************************************************************************)

\* The input holds an import, a class definition, a try block or a dict
\* literal.
HasUnsupported ==
    \E k \in StatementLines :
        LET s == Statement(lines[k])
        IN  \/ startswith(s, <<"i", "m", "p", "o", "r", "t", " ">>)
            \/ startswith(s, <<"c", "l", "a", "s", "s", " ">>)
            \/ s = <<"t", "r", "y", ":">>
            \/ \E j \in 1..Len(s) : s[j] = "{" /\ ~InString(s, j)

\* C4: a call on an input holding an unsupported construct returns no text:
\* it ends in an error.
C4_UnsupportedRejected ==
    (pc = "done" /\ HasUnsupported) => (error.raised /\ result = << >>)

(***************************************************************************)
(* C5.  A function definition with a return.                               *)
(***************************************************************************)

\* The position of the parenthesis after the name of a def statement s.
DefParen(s) == RunEnd(s, 5, WordChars)

\* s is 'def NAME(PARAMS):' with closed parentheses and strings in PARAMS.
IsDef(s) ==
    /\ startswith(s, kw_def)
    /\ endswith(s, <<")", ":">>)
    /\ DefParen(s) > 5
    /\ DefParen(s) <= Len(s) - 2
    /\ s[DefParen(s)] = "("
    /\ Count(s, "(", Len(s)) = Count(s, ")", Len(s))
    /\ ~InString(s, Len(s) + 1)

\* NAME and PARAMS of a def statement.
DefName(s) == SubSeq(s, 5, DefParen(s) - 1)
DefParams(s) == SubSeq(s, DefParen(s) + 1, Len(s) - 2)

\* The input is one def line followed by an indented return line.
IsDefReturnProgram ==
    /\ Len(lines) = 2
    /\ IsDef(strip(lines[1]))
    /\ Indent(lines[2]) > 0
    /\ startswith(strip(lines[2]), kw_return)

\* C5: for 'def NAME(PARAMS):' followed by an indented 'return EXPR' the
\* translation is, after its heading, exactly one function declaration of
\* NAME with PARAMS, whose body returns EXPR, and its closing brace.
C5_FunctionDeclaration ==
    (pc = "done" /\ IsDefReturnProgram) =>
        /\ Len(js_lines) = 5
        /\ js_lines[3] = <<"f", "u", "n", "c", "t", "i", "o", "n", " ">> \o DefName(strip(lines[1])) \o <<"(">>
                           \o DefParams(strip(lines[1])) \o <<")", " ", "{">>
        /\ js_lines[4] = <<" ", " ", " ", " ", "r", "e", "t", "u", "r", "n", " ">> \o SubSeq(strip(lines[2]), 8, Len(strip(lines[2])))
                           \o <<";">>
        /\ js_lines[5] = <<"}">>

(***************************************************************************)
(* C6.  print calls.                                                       *)
(***************************************************************************)

\* The statement s is the call print(A).
IsPrintCall(s) == startswith(s, kw_print) /\ endswith(s, <<")">>)

\* The argument list A of the statement print(A).
PrintArgs(s) == SubSeq(s, 7, Len(s) - 1)

\* C6: for every source line whose statement is print(A), with or without a
\* trailing comment, the translation holds the line console.log(A);
C6_PrintArguments ==
    pc = "done" =>
        \A k \in StatementLines :
            IsPrintCall(Statement(lines[k])) =>
                \E j \in BodyLines :
                    js_lines[j] = <<"c", "o", "n", "s", "o", "l", "e", ".", "l", "o", "g", "(">> \o PrintArgs(Statement(lines[k])) \o <<")", ";">>

(***************************************************************************)
(* C7.  for loops over range.                                              *)
(***************************************************************************)

\* The statement s is 'for V in range(...):'.
IsForRange(s) ==
    startswith(s, kw_for) /\ contains(<<" ", "i", "n", " ", "r", "a", "n", "g", "e", "(">>, s) /\ endswith(s, <<")", ":">>)

\* The for statement at line k has a body: the next line is a statement
\* indented deeper.
HasBody(k) ==
    /\ k + 1 \in StatementLines
    /\ Indent(lines[k + 1]) > Indent(lines[k])

\* C7: for every 'for V in range(...):' with a body the translation holds a
\* for loop as code, and does not hold the source loop as a comment.
C7_CountingLoop ==
    pc = "done" =>
        \A k \in StatementLines :
            (IsForRange(Statement(lines[k])) /\ HasBody(k)) =>
                /\ \E j \in BodyLines : startswith(js_lines[j], <<"f", "o", "r", " ", "(">>)
                /\ \A j \in BodyLines : js_lines[j] # <<"/", "/", " ">> \o Statement(lines[k])

(***************************************************************************)
(* C8.  if / else.                                                         *)
(***************************************************************************)

\* The lines at which an 'else:' at the level of the first line stands.
ElseLines == {k \in 3..(Len(lines) - 1) : lines[k] = kw_else}

\* The input is 'if C:', an indented body, 'else:', an indented body.
IsIfElseProgram ==
    /\ StatementLines = 1..Len(lines)
    /\ WellIndented
    /\ startswith(lines[1], kw_if)
    /\ IsHeader(lines[1])
    /\ Cardinality(ElseLines) = 1
    /\ \A k \in 2..Len(lines) : k \in ElseLines \/ Indent(lines[k]) > 0

\* The line of the else of such an input.
ElseLine == CHOOSE k \in ElseLines : TRUE

\* The text of the translation's lines from a to b.
OutputText(a, b) == join(NL, SubSeq(js_lines, a, b))

\* C8: for 'if C:' body 'else:' body the translation is 'if (C) {', the
\* statements of the then-branch as a closed block body, '} else {', the
\* statements of the else-branch as a closed block body, and '}'.
C8_IfElsePair ==
    (pc = "done" /\ IsIfElseProgram) =>
        /\ js_lines[3] = <<"i", "f", " ", "(">> \o SubSeq(lines[1], 4, Len(lines[1]) - 1) \o <<")", " ", "{">>
        /\ js_lines[Len(js_lines)] = <<"}">>
        /\ \E j \in BodyLines :
               /\ js_lines[j] = <<"}", " ", "e", "l", "s", "e", " ", "{">>
               /\ j - 4 = ElseLine - 2
               /\ Len(js_lines) - 1 - j = Len(lines) - ElseLine
               /\ Balanced(OutputText(4, j - 1))
               /\ Balanced(OutputText(j + 1, Len(js_lines) - 1))

(***************************************************************************)
(* C9.  Unterminated string literals.                                      *)
(***************************************************************************)

\* A string literal is opened on the raw line l and not closed on it.
HasOpenString(l) == InString(l, Len(l) + 1)

\* The column of the quote that opens the unclosed literal of l.
OpenQuoteColumn(l) ==
    CHOOSE k \in 1..Len(l) : l[k] = "\"" /\ \A m \in (k + 1)..Len(l) : l[m] # "\""

\* C9: a call on an input with an unterminated string literal returns no
\* text: it raises an error at the line and the column of the opening quote.
C9_OpenStringRejected ==
    pc = "done" =>
        \A k \in 1..Len(lines) :
            HasOpenString(lines[k]) =>
                /\ error.raised
                /\ error.line = k
                /\ error.column = OpenQuoteColumn(lines[k])
                /\ result = << >>

(***************************************************************************)
(* C10.  Indentation of a block body.                                      *)
(***************************************************************************)

\* The statement s is the header of a def, if, while or for block.
IsBlockHeader(s) ==
    /\ endswith(s, <<":">>)
    /\ startswith(s, kw_def) \/ startswith(s, kw_if) \/ startswith(s, kw_while)
         \/ startswith(s, kw_for)

\* Line b is a statement of the body opened by the header at line h, not at
\* the indentation of the body's first statement: every statement from the
\* header's next line to b is deeper than the header and none of them opens
\* a block of its own.
Offending(h, b) ==
    /\ h \in StatementLines /\ b \in StatementLines
    /\ IsBlockHeader(Statement(lines[h]))
    /\ h + 1 < b
    /\ \A m \in (h + 1)..b :
           /\ m \in StatementLines
           /\ Indent(lines[m]) > Indent(lines[h])
           /\ ~IsHeader(lines[m])
    /\ Indent(lines[b]) # Indent(lines[h + 1])

\* The first line of the input that is out of line in its body, 0 if none.
FirstOffendingLine ==
    LET bad == {b \in 1..Len(lines) : \E h \in 1..Len(lines) : Offending(h, b)}
    IN  IF bad = {} THEN 0 ELSE CHOOSE b \in bad : \A m \in bad : b <= m

\* C10: a call on an input with a body whose statements are not all at one
\* indentation returns no text: it raises an error at the first offending
\* line.
C10_UnevenBodyRejected ==
    (pc = "done" /\ FirstOffendingLine # 0) =>
        /\ error.raised
        /\ error.line = FirstOffendingLine
        /\ result = << >>

(***************************************************************************)
(* C11.  if / elif / else chains.                                          *)
(***************************************************************************)

kw_elif == <<"e", "l", "i", "f", " ">>

\* The statement of l is 'elif C:'.
IsElif(l) == startswith(Statement(l), kw_elif) /\ IsHeader(l)

\* The condition C of 'if C:' or 'elif C:', as written.
HeaderCondition(l) ==
    LET s == Statement(l)
    IN  strip(SubSeq(s, FindFrom(s, 1, " ") + 1, Len(s) - 1))

\* The lines at the level of the first line: the heads of the chain.
ChainHeads == {k \in 1..Len(lines) : Indent(lines[k]) = 0}

\* The lines at which an elif of the chain stands.
ElifLines == {k \in ChainHeads : IsElif(lines[k])}

\* The input is one chain: 'if C:', then one or more 'elif C:', then at most
\* one 'else:', each followed by a body of plain statements at one deeper
\* indentation.
IsIfElifChain ==
    /\ StatementLines = 1..Len(lines)
    /\ startswith(lines[1], kw_if) /\ IsHeader(lines[1])
    /\ ElifLines # {}
    /\ \A k \in ChainHeads :
           \/ k = 1
           \/ k \in ElifLines
           \/ lines[k] = kw_else /\ \A e \in ElifLines : e < k
    /\ Cardinality({k \in ChainHeads : lines[k] = kw_else}) <= 1
    /\ \A k \in ChainHeads : k < Len(lines) /\ k + 1 \notin ChainHeads
    /\ \A k \in (1..Len(lines)) \ ChainHeads :
           ~IsHeader(lines[k]) /\ Indent(lines[k]) = Indent(lines[2])

\* C11: for an if/elif/else chain the translation is an 'if' / 'else if' /
\* 'else' chain with the same branches in the same order: 'if (C) {' for the
\* if, '} else if (C) {' with the condition as written for every elif
\* (whatever comparison operator it holds), '} else {' for the else.
C11_ElifChain ==
    (pc = "done" /\ IsIfElifChain) =>
        /\ Len(js_lines) = Len(lines) + 3
        /\ js_lines[3] = js_if \o HeaderCondition(lines[1]) \o js_block_open
        /\ \A k \in ElifLines :
               js_lines[k + 2] =
                   <<"}", " ", "e", "l", "s", "e", " ">> \o js_if
                       \o HeaderCondition(lines[k]) \o js_block_open
        /\ \A k \in ChainHeads : lines[k] = kw_else => js_lines[k + 2] = js_else

(***************************************************************************)
(* C14.  Comment lines.                                                    *)
(***************************************************************************)

\* The first non-blank character of the raw line l is '#'.
IsCommentLine(l) == startswith(strip(l), ch_hash)

\* The loop is at a comment line of the input.
AtCommentLine == pc = "loop" /\ idx <= Len(lines) /\ IsCommentLine(lines[idx])

\* C14: the iteration over a line whose first non-blank character is '#'
\* adds no statement and no declaration to the translation, whatever the
\* comment holds: it adds nothing or a '//' comment line.
C14_CommentsAddNoCode ==
    [][AtCommentLine =>
          \A j \in (Len(js_lines) + 1)..Len(js_lines') :
              startswith(js_lines'[j], <<"/", "/">>)]_vars

(***************************************************************************)
(* C15 - C17.  Lowering of operators and literals, line by line.           *)
(***************************************************************************)

\* The loop is at a line of the input that holds a statement.
AtStatementLine ==
    pc = "loop" /\ idx <= Len(lines) /\ Statement(lines[idx]) # << >>

\* The lines the running iteration adds to the translation.
Added == SubSeq(js_lines', Len(js_lines) + 1, Len(js_lines'))

\* sub occurs in s outside the string literals of s.
OccursInCode(sub, s) ==
    \E k \in 1..Len(s) : OccursAt(sub, s, k) /\ ~InString(s, k)

\* The word w occurs in s outside string literals, as a whole word.
HasWord(w, s) ==
    \E k \in 1..Len(s) :
        /\ OccursAt(w, s, k)
        /\ ~InString(s, k)
        /\ k = 1 \/ s[k - 1] \notin WordChars
        /\ k + Len(w) > Len(s) \/ s[k + Len(w)] \notin WordChars

\* The augmented assignment operators of the language.
AugOps == {<<"+", "=">>, <<"-", "=">>}

\* The readings of the statement s as 'NAME op E' with op in AugOps.
AugAssignments(s) ==
    {[name |-> strip(SubSeq(s, 1, k - 1)),
      op |-> SubSeq(s, k, k + 1),
      value |-> strip(SubSeq(s, k + 2, Len(s)))] :
        k \in {j \in 2..(Len(s) - 1) :
                  /\ SubSeq(s, j, j + 1) \in AugOps
                  /\ \A m \in 1..(j - 1) : s[m] \in WordChars \cup {" "}
                  /\ \E m \in 1..(j - 1) : s[m] \in WordChars}}

\* C15: the iteration over 'NAME += E' or 'NAME -= E' adds one line, the
\* augmented assignment 'NAME op E;' with the same operator and the same E,
\* and so no declaration.
C15_AugmentedAssignment ==
    [][AtStatementLine =>
          \A a \in AugAssignments(Statement(lines[idx])) :
              Added = <<a.name \o <<" ">> \o a.op \o <<" ">> \o a.value \o js_semi>>]_vars

\* C16: the iteration over a statement holding the operator '//' adds one
\* line of code that applies the floor-division primitive Math.floor and in
\* which '//' does not occur.
C16_FloorDivision ==
    [][(AtStatementLine /\ OccursInCode(<<"/", "/">>, Statement(lines[idx]))) =>
          /\ Len(Added) = 1
          /\ OccursInCode(<<"M", "a", "t", "h", ".", "f", "l", "o", "o", "r", "(">>, Added[1])
          /\ ~OccursInCode(<<"/", "/">>, Added[1])]_vars

\* Python's literal words and the JavaScript literals they stand for.
LiteralWords ==
    {<<<<"T", "r", "u", "e">>, <<"t", "r", "u", "e">>>>,
     <<<<"F", "a", "l", "s", "e">>, <<"f", "a", "l", "s", "e">>>>,
     <<<<"N", "o", "n", "e">>, <<"n", "u", "l", "l">>>>}

\* C17: the iteration over a statement holding True, False or None adds one
\* line that holds true, false or null in its place and no longer holds the
\* Python word.
C17_Literals ==
    [][AtStatementLine =>
          \A w \in LiteralWords :
              HasWord(w[1], Statement(lines[idx])) =>
                  /\ Len(Added) = 1
                  /\ HasWord(w[2], Added[1])
                  /\ ~HasWord(w[1], Added[1])]_vars

(***************************************************************************)
(* C18.  Block headers without a colon.                                    *)
(***************************************************************************)

\* The statement of l starts a def, if or while header and holds no colon.
LacksColon(l) ==
    /\ \/ startswith(Statement(l), kw_def)
       \/ startswith(Statement(l), kw_if)
       \/ startswith(Statement(l), kw_while)
    /\ ~OccursInCode(<<":">>, Statement(l))

\* C18: a call on an input with a def, if or while header without its colon
\* returns no text: it raises an error, and the header is neither dropped
\* nor emitted with its condition cut.
C18_MissingColonRejected ==
    (pc = "done" /\ \E k \in 1..Len(lines) : LacksColon(lines[k])) =>
        /\ error.raised
        /\ result = << >>

(***************************************************************************)
(* C19.  Termination and size of the translation.                          *)
(***************************************************************************)

\* The branches of the if/elif chain of the loop body.
Branches ==
    {"def", "return", "print", "assign", "if", "else", "for", "while",
     "other", "comment"}

\* The branches the iteration at the current line takes.
TakenBranches == {b \in Branches : AtBranch(b)}

\* The number of lines of the returned text.
ResultLines == Len(split(result, NL))

\* C19 as stated: every iteration of the loop takes exactly one branch of
\* the chain, and a call returns at most (number of input lines + 3) lines.
C19_OneBranchPerLine ==
    /\ (pc = "loop" /\ idx <= Len(lines)) => Cardinality(TakenBranches) = 1
    /\ pc = "done" => ResultLines <= Len(lines) + 3

\* C19, amended: a call of transpile terminates on every input in one pass
\* over the input lines: while it runs, the guard of the return or of one
\* iteration step holds; every step is either the iteration over the next
\* line, which takes at most one branch (none for an empty line) and adds
\* at most one output line, or the return after the last line; the
\* returned text has at most (number of input lines + 3) lines.
C19_OnePassBounded ==
    /\ [](pc = "loop" =>
            /\ idx \in 1..(Len(lines) + 1)
            /\ idx > Len(lines) \/ \E b \in Branches \cup {"blank"} : AtBranch(b)
            /\ idx <= Len(lines) =>
                 /\ Cardinality(TakenBranches) <= 1
                 /\ TakenBranches = {} <=> strip(lines[idx]) = << >>)
    /\ [](pc = "done" =>
            /\ ResultLines = Len(js_lines)
            /\ ResultLines <= Len(lines) + 3)
    /\ [][pc = "loop" =>
            \/ /\ idx <= Len(lines)
               /\ pc' = "loop" /\ lines' = lines /\ idx' = idx + 1
               /\ Len(js_lines') <= Len(js_lines) + 1
               /\ TakenBranches = {} => js_lines' = js_lines
            \/ /\ idx = Len(lines) + 1
               /\ pc' = "done"]_vars

\* A call has returned (number of input lines + 3) lines for an input of
\* several lines, and a later call has returned fewer for an input with an
\* empty line, for which no branch was taken.
C19_Witness ==
    /\ first.called
    /\ Len(InputLines(first.code)) >= 2
    /\ Len(split(first.text, NL)) = Len(InputLines(first.code)) + 3
    /\ pc = "done"
    /\ \E k \in 1..Len(lines) : strip(lines[k]) = << >>
    /\ ResultLines < Len(lines) + 3

(***************************************************************************)
(* C12.  Debounce of the automatic transpile.                              *)
(***************************************************************************)

\* C12: in every state from the start of the application on, at most one
\* auto-transpile callback is pending (so that a burst of text changes, the
\* welcome transpile included, leaves one transpile run behind).
C12_OnePendingCallback == Cardinality(after_queue) <= 1

(***************************************************************************)
(* C13.  A failed transpile shows no translation.                          *)
(***************************************************************************)

\* The step is a run of transpile_code whose call of transpile raised
\* TranspilerError.
TranspileFails ==
    /\ transpile_calls' # transpile_calls
    /\ last_call'.outcome.kind = "TranspilerError"

\* C13: a run of transpile_code whose call of transpile raises
\* TranspilerError leaves the JavaScript pane empty and the status indicator
\* in its error state, appends exactly one message, an error message with
\* the error's text, and calls transpile once.
C13_FailureShowsNoTranslation ==
    [][TranspileFails =>
          /\ js_editor' = << >>
          /\ status_indicator' = "Error"
          /\ Len(messages') = Len(messages) + 1
          /\ SubSeq(messages', 1, Len(messages)) = messages
          /\ messages'[Len(messages')].msg_type = "error"
          /\ messages'[Len(messages')].detail = last_call'.outcome.error
          /\ transpile_calls' = transpile_calls + 1]_vars

\* A transpile has failed after an earlier one had succeeded: the pane is
\* empty and the error message follows the success message.
C13_Witness ==
    /\ last_call.outcome.kind = "TranspilerError"
    /\ Len(messages) >= 2
    /\ messages[Len(messages) - 1].msg_type = "success"
    /\ messages[Len(messages)].msg_type = "error"
    /\ js_editor = << >>
    /\ status_indicator = "Error"

(***************************************************************************)
(* C20.  Auto-transpile is on by default.                                  *)
(***************************************************************************)

\* The welcome code has been transpiled once, by the automatic transpile,
\* and the JavaScript pane shows what transpile returned for it (the mock's
\* translation when the translator is the mock).
WelcomeShown ==
    /\ transpile_calls = 1
    /\ last_call.code = strip(welcome_code)
    /\ last_call.is_auto
    /\ last_call.outcome.kind = "ok" =>
           js_editor = last_call.outcome.text /\ status_indicator = "Success"
    /\ transpiler = "mock" => js_editor = transpile(welcome_code)

\* C20: when the application starts without a settings file,
\* auto_transpile_enabled is true; as long as the user does nothing
\* transpile is called at most once; and unless the user does something the
\* welcome code is eventually transpiled, once, and its translation shown.
C20_WelcomeTranspiledOnce ==
    /\ settings_file = NoSettings => auto_transpile_enabled
    /\ []((settings_file = NoSettings /\ ~user_acted) =>
             /\ transpile_calls <= 1
             /\ transpile_calls = 1 => WelcomeShown)
    /\ settings_file = NoSettings => <>(user_acted \/ WelcomeShown)

\* Without a settings file and without any user action the mock's
\* translation of the welcome code is in the JavaScript pane and nothing is
\* pending.
C20_Witness ==
    /\ settings_file = NoSettings
    /\ ~user_acted
    /\ transpiler = "mock"
    /\ transpile_calls = 1
    /\ js_editor = transpile(welcome_code)
    /\ js_editor # << >>
    /\ after_queue = {}

(***************************************************************************)
(* C23.  Declarations of a name assigned more than once.                   *)
(***************************************************************************)

\* The columns of the statement s that hold the '=' of a plain assignment
\* 'NAME = E': a single '=' with only a name before it.
PlainAssignColumns(s) ==
    {k \in 2..Len(s) :
        /\ s[k] = "="
        /\ k = Len(s) \/ s[k + 1] # "="
        /\ strip(SubSeq(s, 1, k - 1)) # << >>
        /\ \A m \in 1..Len(strip(SubSeq(s, 1, k - 1))) :
               strip(SubSeq(s, 1, k - 1))[m] \in WordChars}

\* The name a plain assignment statement assigns, << >> for another statement.
AssignedName(s) ==
    IF PlainAssignColumns(s) = {} THEN << >>
    ELSE strip(SubSeq(s, 1, (CHOOSE k \in PlainAssignColumns(s) : TRUE) - 1))

\* Two statement lines of the input lie in one scope: they have the same
\* indentation and no statement between them is shallower or opens a def.
SameScope(i, j) ==
    /\ Indent(lines[i]) = Indent(lines[j])
    /\ \A m \in StatementLines :
           (i < m /\ m < j) =>
               /\ Indent(lines[m]) >= Indent(lines[i])
               /\ ~startswith(Statement(lines[m]), kw_def)

\* The lines of the translation that declare name with 'let'.
Declarations(name) ==
    {k \in BodyLines : startswith(js_lines[k], js_let \o name \o js_assign)}

\* The input has two plain assignments to one name in one scope.
AssignedTwice(name) ==
    \E i, j \in StatementLines :
        /\ i < j
        /\ SameScope(i, j)
        /\ AssignedName(Statement(lines[i])) = name
        /\ AssignedName(Statement(lines[j])) = name

\* C23: the text a call returns for an input that assigns a name more than
\* once in one scope declares that name with 'let' at most once.
C23_DeclaredOnce ==
    (pc = "done" /\ ~error.raised) =>
        \A i \in StatementLines :
            LET name == AssignedName(Statement(lines[i]))
            IN  (name # << >> /\ AssignedTwice(name)) =>
                    Cardinality(Declarations(name)) <= 1

(***************************************************************************)
(* C22.  The JavaScript pane catches up with the editor.                   *)
(***************************************************************************)

\* Nothing keeps the pane from catching up with the editor's text: the text
\* has code in it, the transpiler is the mock, whose calls all return, and
\* the calls of the checked run are not used up.
CanCatchUp ==
    /\ strip(python_editor) # << >>
    /\ transpiler = "mock"
    /\ transpile_calls < MaxCalls

\* The window is at rest: no callback is pending, so that nothing happens
\* until the user acts again.
AtRest == after_queue = {}

\* The JavaScript pane shows the translation of the editor's text.
ShowsTranslation == js_editor = Translations[strip(python_editor)]

\* C22: with the callbacks that fall due run, if from some point on
\* auto-transpile stays enabled and the editor's text no longer changes,
\* then the JavaScript pane comes to show the translation of that text,
\* whatever happened before that point.  Stated on the states the window
\* can rest in for ever: with auto-transpile enabled and no callback left
\* to run, the pane shows the translation of the editor's text.
C22_PaneCatchesUp ==
    (auto_transpile_enabled /\ AtRest /\ CanCatchUp) => ShowsTranslation

(***************************************************************************)
(* C21.  Unsaved work and the modified flag.                               *)
(***************************************************************************)

\* C21: in every state where the editor's text differs from the text last
\* loaded or saved, is_modified is true, whatever changed the text; so that
\* new_file, open_file, load_sample, open_recent_file and exit_application,
\* which ask before they replace or drop the text only when is_modified is
\* true, never discard unsaved work without asking.
C21_UnsavedIsModified ==
    (running /\ python_editor # saved_content) => is_modified

(***************************************************************************)
(* C24.  The recent files list.                                            *)
(***************************************************************************)

\* files holds no path twice.
NoDuplicates(files) ==
    \A j, k \in 1..Len(files) : files[j] = files[k] => j = k

\* files is a recent files list as the claim describes it.
WellKept(files) == NoDuplicates(files) /\ Len(files) <= max_recent_files

\* The entries of files other than filename, in their order.
Others(files, filename) == SelectSeq(files, LAMBDA f : f # filename)

\* C24: whatever the handlers have done, recent_files holds no path twice
\* and at most max_recent_files entries, and so does the list save_settings
\* has written for the next load_settings; and add_to_recent_files(f) on
\* the list leaves f at index 0, followed by the other entries it keeps in
\* the order they had.
C24_RecentFilesWellKept ==
    /\ WellKept(recent_files)
    /\ settings_file.exists => WellKept(settings_file.recent_files)
    /\ \A f \in Paths :
           LET added == add_to_recent_files(recent_files, f)
               kept  == Tail(added)
           IN  /\ added[1] = f
               /\ Len(kept) <= Len(Others(recent_files, f))
               /\ kept = SubSeq(Others(recent_files, f), 1, Len(kept))

\* A full list loaded from the settings file, to which open_file or Save As
\* added a file not in it, dropping the last entry, and then the entry that
\* was dropped; the window closed and the list written to the settings file.
C24_Witness ==
    /\ ~running
    /\ settings_file.exists
    /\ settings_file.recent_files = recent_files
    /\ Len(recent_files) = max_recent_files
    /\ recent_files[1] = FullList[max_recent_files]
    /\ recent_files[2] = Path("/home", FileNames[max_recent_files + 1])
    /\ recent_files[3] = FullList[1]

(***************************************************************************)
(* C25.  The file in the editor heads the recent files list.               *)
(***************************************************************************)

\* The step loads a file into the editor (open_file or open_recent_file) or
\* saves the editor's text under a new name (Save As): the handler reports
\* it in the message log, with the name of the file.
LoadsOrSavesAs ==
    /\ Len(messages') > Len(messages)
    /\ messages'[Len(messages')].head \in {"Opened:", "Opened recent:"}
       \/ /\ messages'[Len(messages')].head = "Saved:"
          /\ current_python_file' # current_python_file

\* C25: after every successful load of a file into the editor, by open_file
\* or open_recent_file, and after every successful Save As, the path of that
\* file is current_python_file and is at index 0 of recent_files.
C25_CurrentFileHeadsRecent ==
    [][LoadsOrSavesAs =>
          /\ current_python_file' # NoFile
          /\ recent_files' # << >>
          /\ recent_files'[1] = current_python_file']_vars

(***************************************************************************)
(* C26.  What a save leaves.                                               *)
(***************************************************************************)

\* The last line of the message log after the step.
LastMessage == messages'[Len(messages')]

\* The step ends with a successful save: save_to_file reports the file it
\* wrote as the last line of the message log.
SavesFile ==
    /\ Len(messages') > Len(messages)
    /\ LastMessage.head = "Saved:"

\* The step is a Save or a Save As that wrote nothing: the dialog was
\* cancelled or the write failed.
SavesNothing == (menu_save \/ menu_save_as) /\ messages' = messages

\* C26: after every successful save, by Save on a named file or by Save As
\* to a new name, is_modified is false and the file status label shows the
\* basename of the file just written, without the '*' marker; a failed or
\* cancelled save leaves is_modified, current_python_file and the label as
\* they were.
C26_SaveUpdatesStatus ==
    [][/\ SavesFile =>
              /\ ~is_modified'
              /\ file_status_label' = LastMessage.detail
       /\ SavesNothing =>
              UNCHANGED <<is_modified, current_python_file, file_status_label>>]_vars

(***************************************************************************)
(* C27.  The Dark Theme menu entry.                                        *)
(***************************************************************************)

\* C27: choosing View > Dark Theme changes the theme: when the click is
\* done current_theme is the other one of "dark" and "light", as after one
\* press of the Theme button of the toolbar.
C27_MenuTogglesTheme ==
    [][dark_theme_menu => current_theme' = other_theme(current_theme)]_vars

(***************************************************************************)
(* C28.  The font size.                                                    *)
(***************************************************************************)

\* A font size within the limits of the zoom.
InRange(size) == 8 <= size /\ size <= 24

\* C28: starting from size 12, whatever zoom_in, zoom_out, reset_zoom,
\* save_settings and load_settings have done, font_size is within 8..24,
\* and so is the size save_settings has written for the next load_settings;
\* zoom_in at 24 and zoom_out at 8 leave font_size as it is, and reset_zoom
\* sets it to 12.
C28_FontSizeInRange ==
    /\ [](/\ InRange(font_size)
          /\ settings_file.exists => InRange(settings_file.font_size))
    /\ [][/\ (zoom_in /\ font_size = 24) => font_size' = 24
          /\ (zoom_out /\ font_size = 8) => font_size' = 8
          /\ reset_zoom => font_size' = 12]_vars

\* The window closed at size 8, reached from 12 by zoom_out alone, and the
\* size written to the settings file.
C28_Witness ==
    /\ ~running
    /\ settings_file = Settings(<< >>, 8, "dark", TRUE)
    /\ font_size = 8
    /\ messages = << >>

====
